---- MODULE Spec2Model ----
(***************************************************************************)
(* AppDoc scanning engine (src/src/appdoc/core/scanner.py) with its        *)
(* analyzers (src/src/appdoc/analyzers/) and data model                    *)
(* (src/src/appdoc/models.py).                                             *)
(*                                                                         *)
(* Strings (paths, ignore patterns, dependency tokens) are sequences of    *)
(* one-character strings, so that pathlib, fnmatch and str.split are       *)
(* computed as the code computes them.  A Python source is represented by  *)
(* the outline ast.parse produces for it (its definitions, the first       *)
(* statement of each body, its import targets) or by the exception         *)
(* ast.parse raises; a JavaScript source by its sequence of lexical items. *)
(*                                                                         *)
(* The dataclasses of models.py are taken to accept every keyword the      *)
(* callers pass (function_details, class_details, dependency_graph,        *)
(* files_scanned, ignored_patterns), as the tests of the repository and    *)
(* section 3 of the specification require.                                 *)
(***************************************************************************)
EXTENDS Integers, Sequences, FiniteSets, TLC

----------------------------------------------------------------------------
(* Strings as sequences of characters *)

SLASH == "/"

DOT == "."

StartsWith(s, pre) ==
    /\ Len(pre) <= Len(s)
    /\ SubSeq(s, 1, Len(pre)) = pre

EndsWith(s, suf) ==
    /\ Len(suf) <= Len(s)
    /\ SubSeq(s, Len(s) - Len(suf) + 1, Len(s)) = suf

\* Positions of character c in s
Positions(s, c) == {i \in 1..Len(s) : s[i] = c}

SetMax(S) == CHOOSE x \in S : \A y \in S : y <= x

SetMin(S) == CHOOSE x \in S : \A y \in S : x <= y

\* str.split(c): the parts of s between the occurrences of c
RECURSIVE Split(_, _)
Split(s, c) ==
    IF Positions(s, c) = {}
    THEN <<s>>
    ELSE LET i == SetMin(Positions(s, c))
         IN  <<SubSeq(s, 1, i - 1)>> \o Split(SubSeq(s, i + 1, Len(s)), c)

\* sep.join(parts)
RECURSIVE Join(_, _)
Join(parts, c) ==
    IF parts = <<>> THEN <<>>
    ELSE IF Len(parts) = 1 THEN parts[1]
    ELSE parts[1] \o <<c>> \o Join(Tail(parts), c)

\* str.replace(a, b) for single characters
Replace(s, a, b) == [i \in 1..Len(s) |-> IF s[i] = a THEN b ELSE s[i]]

\* str.rstrip(c)
RECURSIVE RStrip(_, _)
RStrip(s, c) ==
    IF s # <<>> /\ s[Len(s)] = c THEN RStrip(SubSeq(s, 1, Len(s) - 1), c) ELSE s

\* PurePath.parts of a relative path: empty and "." components are dropped
Parts(s) == SelectSeq(Split(s, SLASH), LAMBDA p : p # <<>> /\ p # <<DOT>>)

\* PurePath.name
PathName(s) == IF Parts(s) = <<>> THEN <<>> ELSE Parts(s)[Len(Parts(s))]

\* PurePath.suffix: from the last dot of the name, unless the name starts
\* with that dot or ends with it
PathSuffix(s) ==
    LET name == PathName(s)
        dots == Positions(name, DOT)
    IN  IF dots = {} THEN <<>>
        ELSE LET i == SetMax(dots)
             IN  IF 1 < i /\ i < Len(name) THEN SubSeq(name, i, Len(name)) ELSE <<>>

\* PurePath.with_suffix('')
WithSuffixEmpty(s) == SubSeq(s, 1, Len(s) - Len(PathSuffix(s)))

\* str(PurePath.parent) of a relative path
ParentStr(s) ==
    LET ps == Parts(s)
    IN  IF Len(ps) <= 1 THEN <<DOT>> ELSE Join(SubSeq(ps, 1, Len(ps) - 1), SLASH)

\* PurePath.is_relative_to(other)
IsRelativeTo(s, other) ==
    LET ps == Parts(s)
        po == Parts(other)
    IN  /\ Len(po) <= Len(ps)
        /\ SubSeq(ps, 1, Len(po)) = po

\* fnmatch.fnmatch(s, pat): '*' matches any run of characters (separators
\* included), '?' one character, anything else itself
RECURSIVE fnmatch(_, _)
fnmatch(s, pat) ==
    IF pat = <<>> THEN s = <<>>
    ELSE IF Head(pat) = "*"
         THEN \E k \in 0..Len(s) : fnmatch(SubSeq(s, k + 1, Len(s)), Tail(pat))
    ELSE IF s = <<>> THEN FALSE
    ELSE /\ (Head(pat) = "?" \/ Head(pat) = Head(s))
         /\ fnmatch(Tail(s), Tail(pat))

----------------------------------------------------------------------------
(* Small helpers on sequences and sets *)

Range(s) == {s[i] : i \in 1..Len(s)}

\* All enumerations of a finite set: the orders in which list(set(...))
\* may yield its elements
Perms(S) ==
    {s \in [1..Cardinality(S) -> S] : \A i, j \in 1..Cardinality(S) : s[i] = s[j] => i = j}

\* Optional[int] is the empty set (None) or a singleton
None == {}

Some(n) == {n}

Val(opt) == CHOOSE n \in opt : TRUE

\* Python truthiness of an Optional[int]
Truthy(opt) == opt # None /\ Val(opt) # 0

----------------------------------------------------------------------------
(* models.py *)

\* FileMetric(path, language, lines, ...) with the dataclass defaults
FileMetric(path, language, lines, fns, doc_fns, cls, doc_cls, deps) ==
    [path |-> path, language |-> language, lines |-> lines,
     functions |-> fns, documented_functions |-> doc_fns,
     classes |-> cls, documented_classes |-> doc_cls,
     dependencies |-> deps]

BasicMetric(path, language, lines) ==
    FileMetric(path, language, lines, 0, 0, 0, 0, <<>>)

\* A float is modelled by the exact rational it approximates, a pair
\* <<numerator, denominator>> in lowest terms: rounding in the last place is
\* left out
RECURSIVE GCD(_, _)
GCD(a, b) == IF b = 0 THEN a ELSE GCD(b, a % b)

\* n / d for d > 0
Frac(n, d) == <<n \div GCD(n, d), d \div GCD(n, d)>>

\* f * k
FracTimes(f, k) == Frac(f[1] * k, f[2])

\* The float 0.0
ZeroFloat == <<0, 1>>

\* Variant of documentation_coverage that leaves the classes out
documentation_coverage_FunctionsOnly(m) ==
    LET total_items == m.functions
    IN  IF total_items = 0
        THEN ZeroFloat
        ELSE LET documented_items == m.documented_functions
             IN  FracTimes(Frac(documented_items, total_items), 100)

\* FileMetric.documentation_coverage (a property: computed at each read)
documentation_coverage(m) ==
    LET total_items == m.functions + m.classes
    IN  IF total_items = 0
        THEN ZeroFloat
        ELSE LET documented_items == m.documented_functions + m.documented_classes
             IN  FracTimes(Frac(documented_items, total_items), 100)

\* LanguageSummary.documentation_coverage (a property: computed at each read)
LanguageSummary_documentation_coverage(summary) ==
    LET total_items == summary.functions + summary.classes
    IN  IF total_items = 0
        THEN ZeroFloat
        ELSE LET documented_items == summary.documented_functions + summary.documented_classes
             IN  FracTimes(Frac(documented_items, total_items), 100)

----------------------------------------------------------------------------
(* The analyzers *)

EXT_PY == <<".", "p", "y">>

EXT_JS == <<".", "j", "s">>

EXT_MJS == <<".", "m", "j", "s">>

EXT_TS == <<".", "t", "s">>

EXT_TSX == <<".", "t", "s", "x">>

EXT_CS == <<".", "c", "s">>

\* Scanner.analyzers: the registry, in insertion order
analyzer_instances == <<"python", "javascript", "typescript", "csharp">>

Languages == Range(analyzer_instances)

file_extensions(analyzer) ==
    CASE analyzer = "python" -> {EXT_PY}
      [] analyzer = "javascript" -> {EXT_JS, EXT_MJS, EXT_TS}
      [] analyzer = "typescript" -> {EXT_TS, EXT_TSX}
      [] analyzer = "csharp" -> {EXT_CS}

\* EXTENSION_TO_LANGUAGE, as the set of its <<extension, language>> items
EXTENSION_TO_LANGUAGE ==
    {<<EXT_PY, "python">>, <<EXT_JS, "javascript">>, <<EXT_MJS, "javascript">>,
     <<EXT_TS, "typescript">>, <<EXT_TSX, "typescript">>, <<EXT_CS, "csharp">>}

\* BaseAnalyzer.can_analyze
can_analyze(analyzer, path) == PathSuffix(path) \in file_extensions(analyzer)

----------------------------------------------------------------------------
(* The directory tree under the scan root *)

\* The resolved scan root, Path(path).resolve()
ROOT == <<"/", "r">>

\* root_path / rel
AbsPath(rel) == ROOT \o <<SLASH>> \o rel

\* Path.relative_to(scan_path), as a string
RelativeTo(abs, root) == SubSeq(abs, Len(root) + 2, Len(abs))

P_a == <<"a", ".", "p", "y">>

P_b == <<"b", ".", "p", "y">>

P_gc == <<"g", "/", "c", ".", "p", "y">>

P_x == <<"x", ".", "p", "y">>

P_t == <<"t", ".", "t", "s">>

P_j == <<"j", ".", "j", "s">>

P_u == <<"u", ".", "c", "s">>

P_w == <<"w", ".", "t", "s", "x">>

P_sge == <<"s", "/", "g", "/", "e", ".", "p", "y">>

P_hid == <<".", "p", "y">>

P_dir == <<"d", ".", "p", "y">>

\* What ast.parse and ASTAnalyzer.visit make of a Python source: the
\* exception raised, or the visited definitions (each by the kind of the
\* first statement of its body) and the import statements
PyOutline(parse, functions, classes, imports) ==
    [parse |-> parse, functions |-> functions, classes |-> classes, imports |-> imports]

NoPy == PyOutline("ok", <<>>, <<>>, <<>>)

Imp(stmt, name) == [stmt |-> stmt, name |-> name]

\* A lexical item of a JavaScript source
Item(k, v) == [k |-> k, v |-> v]

Entry(kind, read, lines, py, js) ==
    [kind |-> kind, read |-> read, lines |-> lines, py |-> py, js |-> js]

\* The entries a tree may hold, by root-relative path
Universe == {P_a, P_b, P_gc, P_x, P_t, P_j, P_u, P_w, P_sge, P_hid, P_dir}

FS(rel) ==
    CASE rel = P_a ->
           \* def f(): "doc"; def g(): "doc"; def h(): pass; class C: "doc"
           \* import b; from os import path
           Entry("file", "ok", 3,
                 PyOutline("ok", <<"str", "str", "pass">>, <<"str">>,
                           <<Imp("import", <<"b">>), Imp("from", <<"o", "s">>)>>), <<>>)
      [] rel = P_b ->
           \* def h(): pass; import os.path; from . import a
           Entry("file", "ok", 2,
                 PyOutline("ok", <<"pass">>, <<>>,
                           <<Imp("import", <<"o", "s", ".", "p">>), Imp("from", <<>>)>>), <<>>)
      [] rel = P_gc ->
           \* a source ast.parse rejects with SyntaxError
           Entry("file", "ok", 4, PyOutline("SyntaxError", <<>>, <<>>, <<>>), <<>>)
      [] rel = P_x ->
           \* x = 1+1+...+1: ast.parse raises RecursionError
           Entry("file", "ok", 1, PyOutline("RecursionError", <<>>, <<>>, <<>>), <<>>)
      [] rel = P_t ->
           \* /** */ class Foo { m() { } }  import y from 'b/y'
           Entry("file", "ok", 5, NoPy,
                 <<Item("doc", <<>>), Item("word", <<"class">>), Item("word", <<"F">>),
                   Item("method", <<"m">>), Item("from", <<"b", "/", "y">>)>>)
      [] rel = P_j ->
           \* function f() {}  /** */ function f() {}  const g = () => 1
           \* if (c) {}  require('./a')  require('b.x')  import z from 'b.x'
           Entry("file", "ok", 6, NoPy,
                 <<Item("function", <<"f">>), Item("doc", <<>>), Item("function", <<"f">>),
                   Item("arrow", <<"g">>), Item("method", <<"if">>),
                   Item("require", <<".", "/", "a">>), Item("require", <<"b", ".", "x">>),
                   Item("from", <<"b", ".", "x">>)>>)
      [] rel = P_u ->
           \* a file open() refuses (permission)
           Entry("file", "OSError", 0, NoPy, <<>>)
      [] rel = P_w ->
           \* a file that is not valid UTF-8
           Entry("file", "UnicodeDecodeError", 2, NoPy, <<>>)
      [] rel = P_sge ->
           \* class D: pass
           Entry("file", "ok", 1, PyOutline("ok", <<>>, <<"pass">>, <<>>), <<>>)
      [] rel = P_hid ->
           \* a file named ".py": one line of text
           Entry("file", "ok", 1, NoPy, <<>>)
      [] rel = P_dir ->
           \* a directory named "d.py": open() raises IsADirectoryError
           Entry("dir", "OSError", 0, NoPy, <<>>)

----------------------------------------------------------------------------
(* Outcome of one analysis call: a FileMetric returned or an exception *)

Returned(metric) == [raised |-> FALSE, metric |-> metric]

Raised(exc) == [raised |-> TRUE, exc |-> exc]

\* open(file_path, 'r', encoding='utf-8') followed by f.read() fails
ReadFails(e) == e.kind # "file" \/ e.read # "ok"

\* Variant of RereadLines for an except branch that does not read again
RereadLines_Zero(e) == 0

\* The except branch shared by the analyzers: read the file again for its
\* line count, 0 when that read fails too
RereadLines(e) == IF ReadFails(e) THEN 0 ELSE e.lines

\* Content of the file behind an absolute path
EntryAt(path) == FS(RelativeTo(path, ROOT))

----------------------------------------------------------------------------
(* analyzers/python_analyzer.py *)

\* PythonAnalyzer._has_docstring, on the first statement of the body
has_docstring(first_stmt) == first_stmt = "str"

\* ASTAnalyzer.visit_Import / visit_ImportFrom: the leading segment of each
\* imported module; a from-import without a module adds nothing
RECURSIVE ASTImports(_)
ASTImports(imports) ==
    IF imports = <<>> THEN <<>>
    ELSE LET i == Head(imports)
         IN  (IF i.stmt = "from" /\ i.name = <<>>
              THEN <<>>
              ELSE <<Split(i.name, DOT)[1]>>) \o ASTImports(Tail(imports))

\* sum(1 for d in details if d.is_documented)
PyDocumented(details) == Cardinality({i \in 1..Len(details) : has_docstring(details[i])})

\* Variant of PyMetric with the class list counted as the function total
PyMetric_ClassTotal(path, lines, functions, classes, imports) ==
    FileMetric(path, "python", lines,
               Len(classes), PyDocumented(functions),
               Len(classes), PyDocumented(classes),
               imports)

\* The FileMetric built from a parsed source
PyMetric(path, lines, functions, classes, imports) ==
    FileMetric(path, "python", lines,
               Len(functions), PyDocumented(functions),
               Len(classes), PyDocumented(classes),
               imports)

\* PythonAnalyzer.analyze_file
PythonAnalyzer_analyze_file(path) ==
    LET e == EntryAt(path)
    IN  IF ReadFails(e) \/ e.py.parse = "SyntaxError"
        THEN {Returned(FileMetric(path, "python", RereadLines(e), 0, 0, 0, 0, <<>>))}
        ELSE IF e.py.parse # "ok"
        THEN {Raised(e.py.parse)}
        ELSE {Returned(PyMetric(path, e.lines, e.py.functions, e.py.classes,
                                ASTImports(e.py.imports)))}

----------------------------------------------------------------------------
(* analyzers/javascript_analyzer.py *)

ControlWords == {<<"if">>, <<"for">>, <<"while">>, <<"catch">>, <<"switch">>}

NamesOf(items, kinds) == {items[i].v : i \in {j \in 1..Len(items) : items[j].k \in kinds}}

\* The \w+ an item starts with, <<>> when it starts with none
FirstWord(item) ==
    CASE item.k \in {"word", "method"} -> item.v
      [] item.k = "function" -> <<"function">>
      [] item.k = "arrow" -> <<"const">>
      [] item.k = "from" -> <<"from">>
      [] item.k = "require" -> <<"require">>
      [] OTHER -> <<>>

\* JavaScriptAnalyzer._find_functions
find_functions(items) ==
    LET func_decls == NamesOf(items, {"function"})
        arrow_funcs == NamesOf(items, {"arrow"})
        methods == NamesOf(items, {"function", "method"})
        filtered_methods ==
            {m \in methods :
                ~ \E i \in 1..(Len(items) - 1) :
                    /\ items[i].k = "word"
                    /\ items[i].v \in ControlWords \cup {<<"class">>}
                    /\ items[i + 1].k = "method"
                    /\ items[i + 1].v = m}
    IN  (func_decls \cup arrow_funcs \cup filtered_methods) \ ControlWords

\* The search of _count_documented_functions for one function name: a JSDoc
\* comment anywhere before "function <func>" or "<word> <func> ="
FunctionDocFound(items, func) ==
    \E i, j \in 1..Len(items) :
        /\ i < j
        /\ items[i].k = "doc"
        /\ \/ items[j].k = "function" /\ StartsWith(items[j].v, func)
           \/ items[j].k = "arrow" /\ items[j].v = func

\* JavaScriptAnalyzer._count_documented_functions
count_documented_functions(items, functions) ==
    Cardinality({f \in functions : FunctionDocFound(items, f)})

\* CLASS_PATTERN.findall(content): the matched texts "class <word>", left to
\* right without overlap
RECURSIVE ClassFindall(_, _)
ClassFindall(items, i) ==
    IF i >= Len(items) THEN <<>>
    ELSE IF items[i] = Item("word", <<"class">>) /\ FirstWord(items[i + 1]) # <<>>
         THEN <<<<"class">> \o FirstWord(items[i + 1])>> \o ClassFindall(items, i + 2)
         ELSE ClassFindall(items, i + 1)

\* The search of _count_documented_classes for one matched text cls: a JSDoc
\* comment directly followed by "class" and then by the text cls
ClassDocFound(items, cls) ==
    \E i \in 1..(Len(items) - 3) :
        /\ items[i].k = "doc"
        /\ items[i + 1] = Item("word", <<"class">>)
        /\ items[i + 2] = Item("word", <<cls[1]>>)
        /\ StartsWith(FirstWord(items[i + 3]), Tail(cls))

\* JavaScriptAnalyzer._count_documented_classes
count_documented_classes(items, classes) ==
    Cardinality({c \in 1..Len(classes) : ClassDocFound(items, classes[c])})

\* JavaScriptAnalyzer._extract_dependencies: the orders list(set(...)) may
\* give, each reduced to the top-level segments of the non-relative targets
extract_dependencies(items) ==
    LET import_matches == NamesOf(items, {"from"})
        require_matches == NamesOf(items, {"require"})
        Keep(dep) == dep # <<>> /\ ~ StartsWith(dep, <<DOT>>)
        Base(s) == [i \in 1..Len(s) |-> Split(s[i], SLASH)[1]]
    IN  {Base(SelectSeq(order, Keep)) : order \in Perms(import_matches \cup require_matches)}

\* JavaScriptAnalyzer.analyze_file
JavaScriptAnalyzer_analyze_file(path) ==
    LET e == EntryAt(path)
    IN  IF ReadFails(e)
        THEN {Returned(FileMetric(path, "javascript", RereadLines(e), 0, 0, 0, 0, <<>>))}
        ELSE LET functions == find_functions(e.js)
                 classes == ClassFindall(e.js, 1)
             IN  {Returned(FileMetric(path, "javascript", e.lines,
                                      Cardinality(functions),
                                      count_documented_functions(e.js, functions),
                                      Len(classes),
                                      count_documented_classes(e.js, classes),
                                      deps)) : deps \in extract_dependencies(e.js)}

----------------------------------------------------------------------------
(* analyzers/typescript_analyzer.py, analyzers/csharp_analyzer.py *)

\* The stub analyzers: a line count only
StubAnalyzer_analyze_file(language, path) ==
    LET e == EntryAt(path)
    IN  {Returned(BasicMetric(path, language, IF ReadFails(e) THEN RereadLines(e) ELSE e.lines))}

analyze_file(analyzer, path) ==
    CASE analyzer = "python" -> PythonAnalyzer_analyze_file(path)
      [] analyzer = "javascript" -> JavaScriptAnalyzer_analyze_file(path)
      [] OTHER -> StubAnalyzer_analyze_file(analyzer, path)

----------------------------------------------------------------------------
(* core/scanner.py *)

\* os.cpu_count() of the host
CpuCount == 2

\* Scanner._analyze_single_file: the first analyzer of the registry that
\* claims the path, or the fallback line counter
analyze_single_file(path) ==
    LET claiming == {i \in 1..Len(analyzer_instances) : can_analyze(analyzer_instances[i], path)}
    IN  IF claiming # {}
        THEN analyze_file(analyzer_instances[SetMin(claiming)], path)
        ELSE {Returned(BasicMetric(path, "unknown", RereadLines(EntryAt(path))))}

\* Scanner._matches_pattern
matches_pattern(path_str, pattern) ==
    IF EndsWith(pattern, <<SLASH>>)
    THEN IsRelativeTo(path_str, RStrip(pattern, SLASH))
    ELSE fnmatch(path_str, pattern) \/ fnmatch(ParentStr(path_str), pattern)

\* root_path.rglob('*' + ext): every entry of the tree, at any depth, whose
\* name ends with ext
rglob(tree, ext) == {rel \in tree : EndsWith(PathName(rel), ext)}

\* The set(files) of Scanner._discover_files: what the analyzers' extensions
\* collect, duplicates removed
discovered(tree, analyzers) ==
    UNION {rglob(tree, ext) : ext \in UNION {file_extensions(a) : a \in Range(analyzers)}}

\* The list files of Scanner._discover_files as the loops over the analyzers
\* and their extensions fill it: per analyzer, what its extensions collect, in
\* any order; a path two analyzers collect is in the list twice
RECURSIVE found_lists(_, _)
found_lists(tree, analyzers) ==
    IF analyzers = <<>> THEN {<<>>}
    ELSE {h \o t : h \in Perms(UNION {rglob(tree, ext) : ext \in file_extensions(Head(analyzers))}),
                   t \in found_lists(tree, Tail(analyzers))}

\* Variant of discovery_orders that keeps the list as the loops filled it
discovery_orders_NoDedupe(tree, analyzers) == found_lists(tree, analyzers)

\* files = list(set(files)): the distinct paths of the list, in any order
discovery_orders(tree, analyzers) ==
    UNION {Perms(Range(files)) : files \in found_lists(tree, analyzers)}

\* The loop of Scanner._discover_files over one order of the set: the paths
\* no ignore pattern matches, in that order
filter_ignored(order, ignore_set) ==
    SelectSeq(order, LAMBDA rel : ~ \E p \in ignore_set : matches_pattern(rel, p))

\* Scanner.scan: analyzers_to_use
analyzers_to_use(languages) ==
    IF languages # {}
    THEN SelectSeq(analyzer_instances, LAMBDA a : a \in languages)
    ELSE analyzer_instances

\* Scanner.scan: the max_files cut, files_to_analyze[:self.max_files]
limit_files(files, max_files) ==
    IF Truthy(max_files) /\ Len(files) > Val(max_files)
    THEN SubSeq(files, 1, Val(max_files))
    ELSE files

\* Variant of add_metric that assigns the line count instead of adding to it
add_metric_Overwrite(data, metric) ==
    LET lang == metric.language
        old == IF lang \in DOMAIN data
               THEN data[lang]
               ELSE [files |-> 0, lines |-> 0, functions |-> 0, documented_functions |-> 0,
                     classes |-> 0, documented_classes |-> 0]
        new == [files |-> old.files + 1,
                lines |-> metric.lines,
                functions |-> old.functions + metric.functions,
                documented_functions |-> old.documented_functions + metric.documented_functions,
                classes |-> old.classes + metric.classes,
                documented_classes |-> old.documented_classes + metric.documented_classes]
    IN  [l \in DOMAIN data \cup {lang} |-> IF l = lang THEN new ELSE data[l]]

\* One step of the loop of Scanner._aggregate_results
add_metric(data, metric) ==
    LET lang == metric.language
        old == IF lang \in DOMAIN data
               THEN data[lang]
               ELSE [files |-> 0, lines |-> 0, functions |-> 0, documented_functions |-> 0,
                     classes |-> 0, documented_classes |-> 0]
        new == [files |-> old.files + 1,
                lines |-> old.lines + metric.lines,
                functions |-> old.functions + metric.functions,
                documented_functions |-> old.documented_functions + metric.documented_functions,
                classes |-> old.classes + metric.classes,
                documented_classes |-> old.documented_classes + metric.documented_classes]
    IN  [l \in DOMAIN data \cup {lang} |-> IF l = lang THEN new ELSE data[l]]

RECURSIVE aggregate_from(_, _)
aggregate_from(data, metrics) ==
    IF metrics = <<>> THEN data
    ELSE aggregate_from(add_metric(data, Head(metrics)), Tail(metrics))

\* Variant of aggregate_results that files every metric after the first
\* under the first metric's language
aggregate_results_FirstLanguage(file_metrics) ==
    LET relabelled == [i \in 1..Len(file_metrics) |->
                          [file_metrics[i] EXCEPT !.language = file_metrics[1].language]]
        data == aggregate_from(<<>>, relabelled)
    IN  [l \in DOMAIN data |-> [language |-> l] @@ data[l]]

\* Scanner._aggregate_results: language -> LanguageSummary
aggregate_results(file_metrics) ==
    LET data == aggregate_from(<<>>, file_metrics)
    IN  [l \in DOMAIN data |-> [language |-> l] @@ data[l]]

\* sum(metric.lines for metric in file_metrics)
RECURSIVE sum_lines(_)
sum_lines(metrics) ==
    IF metrics = <<>> THEN 0 ELSE Head(metrics).lines + sum_lines(Tail(metrics))

\* Module name of a root-relative path: extension stripped, separators dotted
module_name(rel_path) == Replace(WithSuffixEmpty(rel_path), SLASH, DOT)

\* Leading segment of a dependency token, dep.split('.')[0]
dep_base(dep) == Split(dep, DOT)[1]

\* The reverse index of Scanner._build_dependency_graph, as its insertions
\* <<module, rel_path>> in the order they are made
RECURSIVE module_insertions(_)
module_insertions(metrics) ==
    IF metrics = <<>> THEN <<>>
    ELSE LET metric == Head(metrics)
             rel_path == RelativeTo(metric.path, ROOT)
             potential_modules ==
                 <<module_name(rel_path)>>
                 \o [i \in 1..Len(metric.dependencies) |-> dep_base(metric.dependencies[i])]
         IN  [i \in 1..Len(potential_modules) |-> <<potential_modules[i], rel_path>>]
             \o module_insertions(Tail(metrics))

\* module_to_files[mod]: the files inserted under mod, in insertion order
module_to_files(insertions, mod) ==
    LET hits == SelectSeq(insertions, LAMBDA ins : ins[1] = mod)
    IN  [i \in 1..Len(hits) |-> hits[i][2]]

\* Variant of edge_allowed without the self-dependency test
edge_allowed_Any(rel_path, target) == TRUE

\* "Avoid self-dependencies"
edge_allowed(rel_path, target) == target # rel_path

\* Scanner._build_dependency_graph, in node-link form
build_dependency_graph(file_metrics) ==
    LET insertions == module_insertions(file_metrics)
        Rel(i) == RelativeTo(file_metrics[i].path, ROOT)
        Candidates(i, k) == module_to_files(insertions, dep_base(file_metrics[i].dependencies[k]))
    IN  [nodes |-> {Rel(i) : i \in 1..Len(file_metrics)},
         links |-> UNION {{[source |-> Rel(i), target |-> Candidates(i, k)[1]] :
                              k \in {d \in 1..Len(file_metrics[i].dependencies) :
                                        /\ Candidates(i, d) # <<>>
                                        /\ edge_allowed(Rel(i), Candidates(i, d)[1])}} :
                          i \in 1..Len(file_metrics)}]

\* Variant of ScanResult whose file metrics carry root-relative paths
ScanResult_Relativized(file_metrics, ignore_patterns_arg) ==
    [total_files |-> Len(file_metrics),
     total_lines |-> sum_lines(file_metrics),
     language_summaries |-> aggregate_results(file_metrics),
     file_metrics |-> [k \in 1..Len(file_metrics) |->
                          [file_metrics[k] EXCEPT !.path = RelativeTo(file_metrics[k].path, ROOT)]],
     scan_path |-> ROOT,
     dependency_graph |-> build_dependency_graph(file_metrics),
     files_scanned |-> Len(file_metrics),
     ignored_patterns |-> ignore_patterns_arg]

\* The ScanResult Scanner.scan returns (clock readings left out)
ScanResult(file_metrics, ignore_patterns_arg) ==
    [total_files |-> Len(file_metrics),
     total_lines |-> sum_lines(file_metrics),
     language_summaries |-> aggregate_results(file_metrics),
     file_metrics |-> file_metrics,
     scan_path |-> ROOT,
     dependency_graph |-> build_dependency_graph(file_metrics),
     files_scanned |-> Len(file_metrics),
     ignored_patterns |-> ignore_patterns_arg]

\* sum(summary.<field> for summary in language_summaries.values()), over the
\* languages langs still to add
RECURSIVE SumField(_, _, _)
SumField(summaries, field, langs) ==
    IF langs = {} THEN 0
    ELSE LET l == CHOOSE x \in langs : TRUE
         IN  summaries[l][field] + SumField(summaries, field, langs \ {l})

\* ScanResult.total_functions
total_functions(result) ==
    SumField(result.language_summaries, "functions", DOMAIN result.language_summaries)

\* ScanResult.total_documented_functions
total_documented_functions(result) ==
    SumField(result.language_summaries, "documented_functions", DOMAIN result.language_summaries)

\* ScanResult.total_classes
total_classes(result) ==
    SumField(result.language_summaries, "classes", DOMAIN result.language_summaries)

\* ScanResult.total_documented_classes
total_documented_classes(result) ==
    SumField(result.language_summaries, "documented_classes", DOMAIN result.language_summaries)

\* ScanResult.overall_coverage
overall_coverage(result) ==
    LET total_items == total_functions(result) + total_classes(result)
    IN  IF total_items = 0
        THEN ZeroFloat
        ELSE LET documented_items ==
                     total_documented_functions(result) + total_documented_classes(result)
             IN  FracTimes(Frac(documented_items, total_items), 100)

----------------------------------------------------------------------------
(* Bounds and the inputs of a scan *)

\* Largest number of entries in the scanned tree
MaxTree == 2

\* Largest max_files cap tried
MaxCap == 1

PAT_gdir == <<"g", "/">>

PAT_g == <<"g">>

PAT_ts == <<"*", ".", "t", "s">>

\* ignore_patterns arguments tried (None and [] are the empty set)
IgnoreChoices == {{}, {PAT_gdir}, {PAT_ts, PAT_g}}

\* languages arguments tried (None and [] are the empty set)
LanguageChoices == {{}, {"python"}, {"typescript"}}

MaxFilesChoices == {None} \cup {Some(n) : n \in 0..MaxCap}

\* threads arguments tried
ThreadChoices == {None, Some(1), Some(-1)}

VARIABLES
    pc,               \* where Scanner.scan is: "call", "analyzing", "cancelling",
                      \* "returned", "raised"
    path_is_dir,      \* scan_path.is_dir()
    tree,             \* the entries under the root, by root-relative path
    ignore_patterns,  \* argument of scan
    languages,        \* argument of scan
    max_files,        \* Scanner.max_files
    threads,          \* argument of Scanner.__init__
    files_to_analyze, \* the paths dispatched, in submission order
    future,           \* per submitted task: "pending", "running" or "finished"
    outcome,          \* per submitted task: {} or the outcome it finished with
    collected,        \* tasks as_completed has yielded
    results,          \* the list _analyze_files_concurrently appends to
    scan_result,      \* {} or the ScanResult returned
    error             \* {} or the exception scan raised

vars == <<pc, path_is_dir, tree, ignore_patterns, languages, max_files, threads,
          files_to_analyze, future, outcome, collected, results, scan_result, error>>

inputs == <<path_is_dir, tree, ignore_patterns, languages, max_files, threads>>

\* Scanner.__init__: self.threads = threads or os.cpu_count()
self_threads == IF Truthy(threads) THEN Val(threads) ELSE CpuCount

\* The tasks submitted to the executor, numbered in submission order
Tasks == DOMAIN future

Init ==
    /\ pc = "call"
    /\ path_is_dir \in BOOLEAN
    /\ tree \in {t \in SUBSET Universe : Cardinality(t) <= MaxTree}
    /\ path_is_dir = FALSE => tree = {}
    /\ ignore_patterns \in IgnoreChoices
    /\ languages \in LanguageChoices
    /\ max_files \in MaxFilesChoices
    /\ threads \in ThreadChoices
    /\ files_to_analyze = <<>>
    /\ future = <<>>
    /\ outcome = <<>>
    /\ collected = {}
    /\ results = <<>>
    /\ scan_result = {}
    /\ error = {}

\* scan: the path is not a directory
Scan_RootNotFound ==
    /\ pc = "call"
    /\ ~ path_is_dir
    /\ pc' = "raised"
    /\ error' = {"ValueError: not a directory"}
    /\ UNCHANGED <<inputs, files_to_analyze, future, outcome, collected, results, scan_result>>

\* scan up to the executor: the files one discovery order leaves after the
\* ignore patterns and the max_files cut
FilesFor(order) ==
    LET kept == limit_files(filter_ignored(order, ignore_patterns), max_files)
    IN  [i \in 1..Len(kept) |-> AbsPath(kept[i])]

\* scan: discovery, then ThreadPoolExecutor(max_workers=self.threads) raises
\* ValueError for a pool size below 1
Scan_PoolRejected ==
    /\ pc = "call"
    /\ path_is_dir
    /\ self_threads <= 0
    /\ \E order \in discovery_orders(tree, analyzers_to_use(languages)) :
           files_to_analyze' = FilesFor(order)
    /\ pc' = "raised"
    /\ error' = {"ValueError: max_workers"}
    /\ UNCHANGED <<inputs, future, outcome, collected, results, scan_result>>

\* scan: discovery, then every file is submitted to the executor
Scan_Dispatch ==
    /\ pc = "call"
    /\ path_is_dir
    /\ self_threads > 0
    /\ \E order \in discovery_orders(tree, analyzers_to_use(languages)) :
           /\ files_to_analyze' = FilesFor(order)
           /\ future' = [i \in 1..Len(FilesFor(order)) |-> "pending"]
           /\ outcome' = [i \in 1..Len(FilesFor(order)) |-> {}]
    /\ pc' = "analyzing"
    /\ UNCHANGED <<inputs, collected, results, scan_result, error>>

\* Variant of Worker_Start for a pool that keeps one of its threads idle
Worker_Start_OneIdle(i) ==
    /\ pc \in {"analyzing", "cancelling"}
    /\ future[i] = "pending"
    /\ \A j \in 1..(i - 1) : future[j] # "pending"
    /\ Cardinality({j \in Tasks : future[j] = "running"}) + 1 < self_threads
    /\ future' = [future EXCEPT ![i] = "running"]
    /\ UNCHANGED <<pc, inputs, files_to_analyze, outcome, collected, results, scan_result, error>>

\* Variant of Worker_Start for a pool that starts a thread per queued task
Worker_Start_Unbounded(i) ==
    /\ pc \in {"analyzing", "cancelling"}
    /\ future[i] = "pending"
    /\ \A j \in 1..(i - 1) : future[j] # "pending"
    /\ future' = [future EXCEPT ![i] = "running"]
    /\ UNCHANGED <<pc, inputs, files_to_analyze, outcome, collected, results, scan_result, error>>

\* A pool thread takes the oldest queued task; the pool keeps doing so while
\* the executor is shut down with wait=True
Worker_Start(i) ==
    /\ pc \in {"analyzing", "cancelling"}
    /\ future[i] = "pending"
    /\ \A j \in 1..(i - 1) : future[j] # "pending"
    /\ Cardinality({j \in Tasks : future[j] = "running"}) < self_threads
    /\ future' = [future EXCEPT ![i] = "running"]
    /\ UNCHANGED <<pc, inputs, files_to_analyze, outcome, collected, results, scan_result, error>>

\* _analyze_single_file returns or raises in its pool thread
Worker_Finish(i) ==
    /\ pc \in {"analyzing", "cancelling"}
    /\ future[i] = "running"
    /\ \E o \in analyze_single_file(files_to_analyze[i]) :
           outcome' = [outcome EXCEPT ![i] = {o}]
    /\ future' = [future EXCEPT ![i] = "finished"]
    /\ UNCHANGED <<pc, inputs, files_to_analyze, collected, results, scan_result, error>>

\* Variant of collect_metric whose substitute keeps the file's line count
collect_metric_Lines(file_path, o) ==
    IF o.raised
    THEN BasicMetric(file_path, "unknown", RereadLines(EntryAt(file_path)))
    ELSE o.metric

\* What the loop over as_completed appends for one finished future
collect_metric(file_path, o) ==
    IF o.raised THEN BasicMetric(file_path, "unknown", 0) ELSE o.metric

\* Variant of Collect in which the appends for two futures that are finished
\* at the same time overlap and one of the two metrics is lost
Collect_Overlapping(i) ==
    /\ pc = "analyzing"
    /\ future[i] = "finished"
    /\ i \notin collected
    /\ LET waiting == {j \in Tasks : future[j] = "finished" /\ j \notin collected}
       IN  /\ collected' = collected \cup waiting
           /\ results' = Append(results, collect_metric(files_to_analyze[i], Val(outcome[i])))
    /\ UNCHANGED <<pc, inputs, files_to_analyze, future, outcome, scan_result, error>>

\* Variant of Collect that only logs a future that raised
Collect_LogOnly(i) ==
    /\ pc = "analyzing"
    /\ future[i] = "finished"
    /\ i \notin collected
    /\ collected' = collected \cup {i}
    /\ results' = IF Val(outcome[i]).raised
                  THEN results
                  ELSE Append(results, Val(outcome[i]).metric)
    /\ UNCHANGED <<pc, inputs, files_to_analyze, future, outcome, scan_result, error>>

\* The main thread takes a finished future from as_completed
Collect(i) ==
    /\ pc = "analyzing"
    /\ future[i] = "finished"
    /\ i \notin collected
    /\ collected' = collected \cup {i}
    /\ results' = Append(results, collect_metric(files_to_analyze[i], Val(outcome[i])))
    /\ UNCHANGED <<pc, inputs, files_to_analyze, future, outcome, scan_result, error>>

\* Variant of Scan_Return that does not wait for the loop over as_completed
\* to end
Scan_Return_NoBarrier ==
    /\ pc = "analyzing"
    /\ collected # {}
    /\ scan_result' = {ScanResult(results, ignore_patterns)}
    /\ pc' = "returned"
    /\ UNCHANGED <<inputs, files_to_analyze, future, outcome, collected, results, error>>

\* The executor is drained: aggregation, totals, graph, ScanResult
Scan_Return ==
    /\ pc = "analyzing"
    /\ collected = Tasks
    /\ scan_result' = {ScanResult(results, ignore_patterns)}
    /\ pc' = "returned"
    /\ UNCHANGED <<inputs, files_to_analyze, future, outcome, collected, results, error>>

Next ==
    \/ Scan_RootNotFound
    \/ Scan_PoolRejected
    \/ Scan_Dispatch
    \/ \E i \in Tasks : Worker_Start(i)
    \/ \E i \in Tasks : Worker_Finish(i)
    \/ \E i \in Tasks : Collect(i)
    \/ Scan_Return

Spec == Init /\ [][Next]_vars

\* The step in which a running analysis call ends, told by the future alone.
\* Within Next it is exactly a Worker_Finish(i) step, and it can happen exactly
\* when Worker_Finish(i) can, since _analyze_single_file always has an outcome
Worker_Finish_Step(i) ==
    /\ pc \in {"analyzing", "cancelling"}
    /\ future[i] = "running"
    /\ future' = [future EXCEPT ![i] = "finished"]

\* The step in which scan returns, told by its control point alone. Within
\* Next it is exactly a Scan_Return step, and it can happen exactly when
\* Scan_Return can, since _aggregate_results is total
Scan_Return_Step ==
    /\ pc = "analyzing"
    /\ collected = Tasks
    /\ pc' = "returned"

\* The two steps above are the actions they stand for
StepsAreTheActions ==
    [][/\ Scan_Return_Step <=> Scan_Return
       /\ \A i \in Tasks : Worker_Finish_Step(i) <=> Worker_Finish(i)]_vars

\* The analysis phase under fair scheduling: the pool's threads take queued
\* tasks and the analysis calls they run end, and the main thread goes on
\* with its loop over as_completed and with the return that follows it
SpecFair ==
    /\ Spec
    /\ WF_pc(Scan_Return_Step)
    /\ WF_vars(\E i \in Tasks : Worker_Start(i))
    /\ WF_future(\E i \in Tasks : Worker_Finish_Step(i))
    /\ WF_vars(\E i \in Tasks : Collect(i))

----------------------------------------------------------------------------
(* A scan the user interrupts *)

\* KeyboardInterrupt reaches the main thread inside the loop over
\* as_completed: "except Exception" does not catch it, and it leaves the with
\* block, whose exit shuts the executor down with wait=True
Scan_Interrupt ==
    /\ pc = "analyzing"
    /\ pc' = "cancelling"
    /\ error' = {"KeyboardInterrupt"}
    /\ UNCHANGED <<inputs, files_to_analyze, future, outcome, collected, results, scan_result>>

\* Variant of Scan_Abandon that catches the interrupt and returns what was
\* collected
Scan_Abandon_ReturnPartial ==
    /\ pc = "cancelling"
    /\ \A i \in Tasks : future[i] = "finished"
    /\ scan_result' = {ScanResult(results, ignore_patterns)}
    /\ pc' = "returned"
    /\ UNCHANGED <<inputs, files_to_analyze, future, outcome, collected, results, error>>

\* The pool has run every submitted task: the interrupt leaves scan
Scan_Abandon ==
    /\ pc = "cancelling"
    /\ \A i \in Tasks : future[i] = "finished"
    /\ pc' = "raised"
    /\ UNCHANGED <<inputs, files_to_analyze, future, outcome, collected, results,
                   scan_result, error>>

NextInterruptible ==
    \/ Next
    \/ Scan_Interrupt
    \/ Scan_Abandon

SpecInterruptible == Init /\ [][NextInterruptible]_vars

----------------------------------------------------------------------------
(* Properties *)

Result == Val(scan_result)

RelOf(metric) == RelativeTo(metric.path, ROOT)

Faulted(i) == outcome[i] # {} /\ Val(outcome[i]).raised

\* The entries of a list of metrics made for a path
EntriesFor(metrics, path) == {k \in 1..Len(metrics) : metrics[k].path = path}

\* C1: one FileMetric per dispatched file. While the engine collects, the
\* list holds exactly one entry for each future taken from as_completed and
\* none for the others; the list returned holds exactly one entry for every
\* file dispatched after the max_files cut, and total_files is that number.
C1_OneMetricPerDispatchedFile ==
    /\ pc = "analyzing" =>
           /\ Len(results) = Cardinality(collected)
           /\ \A i \in Tasks :
                  Cardinality(EntriesFor(results, files_to_analyze[i]))
                      = (IF i \in collected THEN 1 ELSE 0)
    /\ pc = "returned" =>
           /\ Len(Result.file_metrics) = Len(files_to_analyze)
           /\ Result.total_files = Len(files_to_analyze)
           /\ \A i \in Tasks :
                  Cardinality(EntriesFor(Result.file_metrics, files_to_analyze[i])) = 1

\* C1 witness: a scan returned two metrics for two dispatched files, one of
\* whose tasks had raised
C1_Witness ==
    /\ pc = "returned"
    /\ Len(files_to_analyze) = 2
    /\ Result.total_files = 2
    /\ \E i \in Tasks : Faulted(i)

\* C2: a task that raised is replaced, when collected, by a metric for its
\* path with language "unknown" and 0 lines; its exception never becomes the
\* scan's: the scan stays in its analysis phase or has returned, and it
\* returns only after every task of the batch has finished, with a result
\* that holds that substitute.
C2_FaultIsContained ==
    \A i \in Tasks :
        Faulted(i) =>
            /\ error = {}
            /\ pc \in {"analyzing", "returned"}
            /\ i \in collected =>
                   \E k \in 1..Len(results) :
                       results[k] = BasicMetric(files_to_analyze[i], "unknown", 0)
            /\ pc = "returned" =>
                   /\ \A j \in Tasks : future[j] = "finished"
                   /\ \E k \in 1..Len(Result.file_metrics) :
                          /\ Result.file_metrics[k].path = files_to_analyze[i]
                          /\ Result.file_metrics[k].language = "unknown"
                          /\ Result.file_metrics[k].lines = 0

\* C2 witness: a scan returned although a task raised, and another task of
\* the same batch produced its own metric
C2_Witness ==
    /\ pc = "returned"
    /\ \E i, j \in Tasks :
           /\ Faulted(i)
           /\ ~ Faulted(j)
           /\ \E k \in 1..Len(Result.file_metrics) :
                  Result.file_metrics[k] = Val(outcome[j]).metric

\* C3: analyze never raises outward: every analysis call that finished gave
\* a FileMetric as a value.
C3_AnalyzeNeverRaises ==
    \A i \in Tasks : outcome[i] # {} => ~ Val(outcome[i]).raised

\* An ignore rule as section 4.1 of the specification states it: a pattern
\* ending in a separator excludes what lies under that directory of the
\* root; any other pattern is a glob tried on the root-relative path and on
\* the name of the directory that holds the file
RuleMatches(rel, pattern) ==
    IF EndsWith(pattern, <<SLASH>>)
    THEN IsRelativeTo(rel, RStrip(pattern, SLASH))
    ELSE \/ fnmatch(rel, pattern)
         \/ /\ Len(Parts(rel)) >= 2
            /\ fnmatch(Parts(rel)[Len(Parts(rel)) - 1], pattern)

\* C4: a file that an active ignore rule matches is never dispatched and
\* never appears in the metrics.
C4_IgnoredNeverAppears ==
    /\ \A i \in Tasks :
           ~ \E p \in ignore_patterns : RuleMatches(RelativeTo(files_to_analyze[i], ROOT), p)
    /\ \A k \in 1..Len(results) :
           ~ \E p \in ignore_patterns : RuleMatches(RelOf(results[k]), p)

\* Extensions of the analyzers a language filter lets in
FilteredExtensions == UNION {file_extensions(a) : a \in Languages \cap languages}

\* C5: with a language filter, only files whose name ends with an extension
\* of a filtered-in analyzer are dispatched, and every metric an analysis
\* call returns carries a language of the filter.
C5_FilterRestrictsDispatch ==
    languages # {} =>
        \A i \in Tasks :
            /\ \E ext \in FilteredExtensions : EndsWith(files_to_analyze[i], ext)
            /\ (outcome[i] # {} /\ ~ Val(outcome[i]).raised) =>
                   Val(outcome[i]).metric.language \in languages

\* C6: with a max_files cap of 0 or more, at most that many tasks are
\* submitted and at most that many metrics are collected.
C6_CapBoundsDispatch ==
    (max_files # None /\ Val(max_files) >= 0) =>
        /\ Len(files_to_analyze) <= Val(max_files)
        /\ Len(results) <= Val(max_files)

\* C7: a root that is not a directory makes scan raise before anything is
\* discovered, submitted or returned, and nothing else makes scan raise.
C7_OnlyRootNotFoundAborts ==
    /\ (~ path_is_dir /\ pc # "call") =>
           /\ pc = "raised"
           /\ error = {"ValueError: not a directory"}
           /\ files_to_analyze = <<>>
           /\ future = <<>>
           /\ results = <<>>
           /\ scan_result = {}
    /\ pc = "raised" => ~ path_is_dir

\* C8: the dependency graph of a result has no edge from a node to itself,
\* its nodes are the root-relative paths of the file metrics, and both ends
\* of every edge are among them.
C8_GraphWellFormed ==
    pc = "returned" =>
        LET G == Result.dependency_graph
        IN  /\ G.nodes = {RelOf(Result.file_metrics[k]) : k \in 1..Len(Result.file_metrics)}
            /\ \A l \in G.links :
                   /\ l.source # l.target
                   /\ l.source \in G.nodes
                   /\ l.target \in G.nodes

\* C8 witness: a returned graph with an edge, built from a file one of whose
\* tokens resolves first to the file itself
C8_Witness ==
    /\ pc = "returned"
    /\ Result.dependency_graph.links # {}
    /\ \E k \in 1..Len(results) :
           \E d \in 1..Len(results[k].dependencies) :
               module_to_files(module_insertions(results),
                               dep_base(results[k].dependencies[d]))[1] = RelOf(results[k])

\* C9: if a scanned file X has a dependency token whose leading segment is
\* the module name of another scanned file Y, the graph has the edge X -> Y.
C9_ImportGivesEdge ==
    pc = "returned" =>
        \A x, y \in 1..Len(Result.file_metrics) :
            LET X == Result.file_metrics[x]
                Y == Result.file_metrics[y]
            IN  (x # y /\ \E d \in 1..Len(X.dependencies) :
                              dep_base(X.dependencies[d]) = module_name(RelOf(Y)))
                => [source |-> RelOf(X), target |-> RelOf(Y)] \in Result.dependency_graph.links

Consistent(m) ==
    /\ m.documented_functions <= m.functions
    /\ m.documented_classes <= m.classes

\* C10: documented_functions <= functions and documented_classes <= classes
\* in every metric an analysis call returns, every metric the engine
\* collects, every metric of a result and every language summary of a result.
C10_DocumentedWithinTotals ==
    /\ \A i \in Tasks :
           (outcome[i] # {} /\ ~ Val(outcome[i]).raised) => Consistent(Val(outcome[i]).metric)
    /\ \A k \in 1..Len(results) : Consistent(results[k])
    /\ pc = "returned" =>
           /\ \A k \in 1..Len(Result.file_metrics) : Consistent(Result.file_metrics[k])
           /\ \A l \in DOMAIN Result.language_summaries :
                  Consistent(Result.language_summaries[l])

\* C10 witness: a result whose Python summary sums two files and counts
\* documented and undocumented functions
C10_Witness ==
    /\ pc = "returned"
    /\ "python" \in DOMAIN Result.language_summaries
    /\ Result.language_summaries["python"].files = 2
    /\ Result.language_summaries["python"].documented_functions > 0
    /\ Result.language_summaries["python"].documented_functions
           < Result.language_summaries["python"].functions

\* The metrics an analysis call has returned, by task
ReturnedMetrics == {Val(outcome[i]).metric : i \in {j \in Tasks : outcome[j] # {} /\ ~ Val(outcome[j]).raised}}

\* Every FileMetric the scan holds: returned by a call, collected, or part of
\* the result
AllFileMetrics ==
    ReturnedMetrics \cup Range(results)
    \cup (IF pc = "returned" THEN Range(Result.file_metrics) ELSE {})

\* Every LanguageSummary of the result
AllSummaries ==
    IF pc = "returned"
    THEN {Result.language_summaries[l] : l \in DOMAIN Result.language_summaries}
    ELSE {}

\* cov is the rational 100 * documented / total
IsPercentage(cov, documented, total) == cov[2] > 0 /\ cov[1] * total = 100 * documented * cov[2]

\* The fields of the two dataclasses
FileMetricFields ==
    {"path", "language", "lines", "functions", "documented_functions", "classes",
     "documented_classes", "dependencies"}

LanguageSummaryFields ==
    {"language", "files", "lines", "functions", "documented_functions", "classes",
     "documented_classes"}

\* C11 as stated: for every FileMetric and every LanguageSummary, coverage is 0
\* exactly when functions + classes = 0, and otherwise it is
\* 100 * (documented_functions + documented_classes) / (functions + classes);
\* coverage is no stored field.
C11_CoverageZeroIffNoItems ==
    /\ \A m \in AllFileMetrics :
           /\ (documentation_coverage(m) = ZeroFloat) <=> (m.functions + m.classes = 0)
           /\ m.functions + m.classes # 0 =>
                  IsPercentage(documentation_coverage(m),
                               m.documented_functions + m.documented_classes,
                               m.functions + m.classes)
           /\ DOMAIN m = FileMetricFields
    /\ \A s \in AllSummaries :
           /\ (LanguageSummary_documentation_coverage(s) = ZeroFloat)
                  <=> (s.functions + s.classes = 0)
           /\ s.functions + s.classes # 0 =>
                  IsPercentage(LanguageSummary_documentation_coverage(s),
                               s.documented_functions + s.documented_classes,
                               s.functions + s.classes)
           /\ DOMAIN s = LanguageSummaryFields

\* C11 amended: for every FileMetric and every LanguageSummary, coverage is 0
\* when functions + classes = 0, and otherwise it is
\* 100 * (documented_functions + documented_classes) / (functions + classes),
\* which is 0 as well when no counted item is documented; coverage is no
\* stored field of either record.
C11_CoverageFromCounters ==
    /\ \A m \in AllFileMetrics :
           LET cov == documentation_coverage(m)
           IN  /\ m.functions + m.classes = 0 => cov = ZeroFloat
               /\ m.functions + m.classes # 0 =>
                      IsPercentage(cov, m.documented_functions + m.documented_classes,
                                   m.functions + m.classes)
               /\ (cov = ZeroFloat) <=> (m.documented_functions + m.documented_classes = 0)
               /\ DOMAIN m = FileMetricFields
    /\ \A s \in AllSummaries :
           LET cov == LanguageSummary_documentation_coverage(s)
           IN  /\ s.functions + s.classes = 0 => cov = ZeroFloat
               /\ s.functions + s.classes # 0 =>
                      IsPercentage(cov, s.documented_functions + s.documented_classes,
                                   s.functions + s.classes)
               /\ (cov = ZeroFloat) <=> (s.documented_functions + s.documented_classes = 0)
               /\ DOMAIN s = LanguageSummaryFields

\* C11 witness: a result with a file of coverage 75, a file that has a
\* function and coverage 0, and a Python summary whose coverage is 60, not the
\* mean of its files' coverages
C11_Witness ==
    /\ pc = "returned"
    /\ \E m \in Range(Result.file_metrics) : documentation_coverage(m) = <<75, 1>>
    /\ \E m \in Range(Result.file_metrics) :
           m.functions > 0 /\ documentation_coverage(m) = ZeroFloat
    /\ "python" \in DOMAIN Result.language_summaries
    /\ LanguageSummary_documentation_coverage(Result.language_summaries["python"]) = <<60, 1>>

\* The metrics of results at the positions I, in the order of results
Part(I) ==
    LET kept == SelectSeq([k \in 1..Len(results) |-> IF k \in I THEN <<results[k]>> ELSE <<>>],
                          LAMBDA x : x # <<>>)
    IN  [k \in 1..Len(kept) |-> kept[k][1]]

\* results in the order p of its positions
Rearranged(p) == [k \in 1..Len(results) |-> results[p[k]]]

\* Two summary maps added field by field, language by language
AddSummaries(sa, sb) ==
    [l \in DOMAIN sa \cup DOMAIN sb |->
        IF l \in DOMAIN sa /\ l \in DOMAIN sb
        THEN [language |-> l,
              files |-> sa[l].files + sb[l].files,
              lines |-> sa[l].lines + sb[l].lines,
              functions |-> sa[l].functions + sb[l].functions,
              documented_functions |-> sa[l].documented_functions + sb[l].documented_functions,
              classes |-> sa[l].classes + sb[l].classes,
              documented_classes |-> sa[l].documented_classes + sb[l].documented_classes]
        ELSE IF l \in DOMAIN sa THEN sa[l] ELSE sb[l]]

\* C12: aggregation is associative and independent of order. However the
\* metrics of a result are split into two disjoint parts, the summaries of the
\* two parts added field by field are the summaries of the whole, which are
\* those of the result; and in whatever order the whole is aggregated, the
\* summaries are the same.
C12_AggregationAssociative ==
    pc = "returned" =>
        LET whole == Result.language_summaries
            all == 1..Len(results)
        IN  /\ \A I \in SUBSET all :
                   AddSummaries(aggregate_results(Part(I)),
                                aggregate_results(Part(all \ I))) = whole
            /\ \A p \in Perms(all) : aggregate_results(Rearranged(p)) = whole

\* C12 witness: a result over two files of one language, both with lines and
\* functions, so that the two one-file parts meet in one summary
C12_Witness ==
    /\ pc = "returned"
    /\ Len(results) = 2
    /\ results[1].language = results[2].language
    /\ results[1].lines > 0 /\ results[2].lines > 0
    /\ results[1].lines # results[2].lines
    /\ results[1].functions > 0 /\ results[2].functions > 0

\* Sum of one counter over the metrics tagged lang
RECURSIVE SumTagged(_, _, _)
SumTagged(metrics, field, lang) ==
    IF metrics = <<>> THEN 0
    ELSE (IF Head(metrics).language = lang THEN Head(metrics)[field] ELSE 0)
         + SumTagged(Tail(metrics), field, lang)

\* C13: the keys of language_summaries are exactly the language tags of
\* file_metrics; for each language L, summary[L].files counts the metrics
\* tagged L and each of lines, functions, documented_functions, classes and
\* documented_classes is the sum of that field over them; the files of all
\* summaries sum to total_files and their lines to total_lines.
C13_GroupsByLanguage ==
    pc = "returned" =>
        LET fm == Result.file_metrics
            ls == Result.language_summaries
        IN  /\ DOMAIN ls = {fm[k].language : k \in 1..Len(fm)}
            /\ \A l \in DOMAIN ls :
                   /\ ls[l].language = l
                   /\ ls[l].files = Cardinality({k \in 1..Len(fm) : fm[k].language = l})
                   /\ \A field \in {"lines", "functions", "documented_functions",
                                    "classes", "documented_classes"} :
                          ls[l][field] = SumTagged(fm, field, l)
            /\ SumField(ls, "files", DOMAIN ls) = Result.total_files
            /\ SumField(ls, "lines", DOMAIN ls) = Result.total_lines

\* C13 witness: a result with two languages, each summary counting one file
\* with lines
C13_Witness ==
    /\ pc = "returned"
    /\ Cardinality(DOMAIN Result.language_summaries) = 2
    /\ \A l \in DOMAIN Result.language_summaries :
           Result.language_summaries[l].files = 1 /\ Result.language_summaries[l].lines > 0
    /\ Result.total_lines > 0

\* An entry of the tree that is a file some registered analyzer can analyze
Analyzable(rel) == FS(rel).kind = "file" /\ \E a \in Languages : can_analyze(a, rel)

\* C14: a scan of a directory that holds no analyzable file does not raise,
\* dispatches nothing, and returns a ScanResult with total_files = 0,
\* total_lines = 0, no language summary, no file metric, a dependency graph
\* without nodes and edges, and overall coverage 0.0.
C14_EmptyScanGivesEmptyResult ==
    (path_is_dir /\ pc # "call" /\ ~ \E rel \in tree : Analyzable(rel)) =>
        /\ pc \in {"analyzing", "returned"}
        /\ files_to_analyze = <<>>
        /\ pc = "returned" =>
               /\ Result.total_files = 0
               /\ Result.total_lines = 0
               /\ DOMAIN Result.language_summaries = {}
               /\ Result.file_metrics = <<>>
               /\ Result.dependency_graph.nodes = {}
               /\ Result.dependency_graph.links = {}
               /\ overall_coverage(Result) = ZeroFloat

\* C15: hard barrier. While tasks are being analysed or collected there is no
\* ScanResult; a ScanResult exists only when every dispatched task has
\* finished and has been collected, and its summaries, totals and graph are
\* computed over the metrics of all dispatched files.
C15_HardBarrier ==
    /\ pc = "analyzing" => scan_result = {}
    /\ scan_result # {} =>
           /\ \A i \in Tasks : future[i] = "finished" /\ i \in collected
           /\ {Result.file_metrics[k].path : k \in 1..Len(Result.file_metrics)}
                  = Range(files_to_analyze)
           /\ SumField(Result.language_summaries, "files", DOMAIN Result.language_summaries)
                  = Len(files_to_analyze)
           /\ Cardinality(Result.dependency_graph.nodes) = Len(files_to_analyze)

\* C15 witness: a result over two tasks that were collected in the order
\* opposite to their submission
C15_Witness ==
    /\ pc = "returned"
    /\ Len(files_to_analyze) = 2
    /\ Result.file_metrics[1].path = files_to_analyze[2]
    /\ Result.file_metrics[2].path = files_to_analyze[1]

\* C16: appends to the results list never overlap and lose or duplicate
\* nothing. Every step that changes the list or the set of collected tasks is
\* one append, of the metric of one finished task not collected before, made
\* by the thread that runs the loop over as_completed and not by a pool
\* thread (no task starts or finishes in that step), whatever number of
\* finished tasks is waiting.
C16_AppendsSerialized ==
    [][(results' # results \/ collected' # collected) =>
           \E i \in Tasks :
               /\ future[i] = "finished"
               /\ i \notin collected
               /\ collected' = collected \cup {i}
               /\ results' = Append(results, collect_metric(files_to_analyze[i], Val(outcome[i])))
               /\ future' = future
               /\ outcome' = outcome]_vars

\* C16 witness: two tasks finished in a pool of two threads before either was
\* collected, then one of them has been appended
C16_Witness ==
    /\ pc = "analyzing"
    /\ self_threads >= 2
    /\ Len(results) = 1
    /\ \E i, j \in Tasks :
           /\ i # j
           /\ i \in collected
           /\ j \notin collected
           /\ future[j] = "finished"
           /\ results[1].path = files_to_analyze[i]

\* C17: a scan interrupted while tasks are pending or in flight emits no
\* ScanResult, partial or complete, then or later, and ends by raising; the
\* results list stays what the collection had made of it: one metric per
\* collected task.
C17_InterruptEmitsNothing ==
    error = {"KeyboardInterrupt"} =>
        /\ scan_result = {}
        /\ pc \in {"cancelling", "raised"}
        /\ Len(results) = Cardinality(collected)
        /\ \A i \in collected :
               Cardinality({k \in 1..Len(results) :
                               results[k] = collect_metric(files_to_analyze[i], Val(outcome[i]))}) = 1

\* C17 witness: a scan of two files interrupted after one metric was
\* collected and while the other task was still queued or running has ended
C17_Witness ==
    /\ pc = "raised"
    /\ error = {"KeyboardInterrupt"}
    /\ Len(files_to_analyze) = 2
    /\ Len(results) = 1
    /\ \A i \in Tasks : future[i] = "finished"

\* C18: one analysis task and one FileMetric per discovered path. No path is
\* dispatched twice and none occurs twice among the metrics, also when two
\* analyzers collect it; the result holds as many metrics as there are
\* dispatched paths, which without a max_files cut are exactly the discovered
\* paths no ignore pattern matches.
C18_OneTaskPerPath ==
    (pc # "call" /\ path_is_dir) =>
        /\ \A i, j \in 1..Len(files_to_analyze) :
               files_to_analyze[i] = files_to_analyze[j] => i = j
        /\ \A k, l \in 1..Len(results) : results[k].path = results[l].path => k = l
        /\ pc = "returned" =>
               /\ Len(Result.file_metrics) = Cardinality(Range(files_to_analyze))
               /\ ~ Truthy(max_files) =>
                      Range(files_to_analyze)
                          = {AbsPath(rel) :
                                rel \in {r \in discovered(tree, analyzers_to_use(languages)) :
                                            ~ \E p \in ignore_patterns : matches_pattern(r, p)}}

\* C18 witness: t.ts, which the JavaScript and the TypeScript analyzer both
\* collected, has one metric in a returned result
C18_Witness ==
    /\ pc = "returned"
    /\ \E files \in found_lists(tree, analyzers_to_use(languages)) :
           Cardinality({k \in 1..Len(files) : files[k] = P_t}) = 2
    /\ Cardinality(EntriesFor(Result.file_metrics, AbsPath(P_t))) = 1

\* C19: a pattern that does not end in a separator excludes every file whose
\* root-relative path matches the glob or whose immediate parent directory
\* segment matches it, at any depth: no such file is dispatched.
C19_GlobExcludesParentSegment ==
    \A p \in ignore_patterns :
        ~ EndsWith(p, <<SLASH>>) =>
            \A i \in 1..Len(files_to_analyze) :
                LET rel == RelativeTo(files_to_analyze[i], ROOT)
                    segments == Parts(rel)
                IN  /\ ~ fnmatch(rel, p)
                    /\ Len(segments) >= 2 => ~ fnmatch(segments[Len(segments) - 1], p)

\* C20: the max_files cut is deterministic: with a cap in force, the set of
\* files this scan dispatched is the set every scan of the same tree with the
\* same patterns, languages and cap dispatches, whatever order its discovery
\* yields.
C20_CapSelectsSameSubset ==
    (pc # "call" /\ path_is_dir /\ Truthy(max_files)) =>
        \A order \in discovery_orders(tree, analyzers_to_use(languages)) :
            Range(FilesFor(order)) = Range(files_to_analyze)

\* C21: dependency resolution is deterministic: the edges of the graph of a
\* result are the edges the graph has for every other order in which the same
\* metrics could have been collected.
C21_EdgesIndependentOfOrder ==
    pc = "returned" =>
        \A p \in Perms(1..Len(results)) :
            build_dependency_graph(Rearranged(p)).links = Result.dependency_graph.links

\* C22: a token whose leading segment is the module name of no scanned file
\* gives no edge: every edge X -> Y of the graph comes from a token of X whose
\* leading segment is the module name of Y.
C22_ExternalTokenGivesNoEdge ==
    pc = "returned" =>
        \A l \in Result.dependency_graph.links :
            \E x \in 1..Len(Result.file_metrics) :
                LET X == Result.file_metrics[x]
                IN  /\ RelOf(X) = l.source
                    /\ \E d \in 1..Len(X.dependencies) :
                           dep_base(X.dependencies[d]) = module_name(l.target)

\* The concurrency the caller configured: the threads argument, or the
\* host's logical core count when none is given
ConfiguredConcurrency == IF threads # None THEN Val(threads) ELSE CpuCount

RunningTasks == {i \in Tasks : future[i] = "running"}

Degraded(i) ==
    \/ Val(outcome[i]).raised
    \/ ReadFails(EntryAt(files_to_analyze[i]))
    \/ /\ Val(outcome[i]).metric.language = "python"
       /\ EntryAt(files_to_analyze[i]).py.parse # "ok"

\* Unread until the analysis call of task i has ended, Parsed or Degraded
\* from then on
FileState(i) ==
    IF outcome[i] = {} THEN "Unread"
    ELSE IF Degraded(i) THEN "Degraded" ELSE "Parsed"

\* C24: the per-file state machine. A file leaves Unread only for Parsed or
\* Degraded and keeps that state and its outcome in every later step; the
\* metrics collected so far are never changed or removed by a later step, and
\* the ScanResult carries them exactly as collected and is itself never
\* changed.
C24_FileStateMachine ==
    [][/\ \A i \in Tasks :
              /\ FileState(i) # "Unread" =>
                     /\ outcome'[i] = outcome[i]
                     /\ FileState(i)' = FileState(i)
              /\ FileState(i)' \in {"Unread", "Parsed", "Degraded"}
       /\ Len(results') >= Len(results)
       /\ \A k \in 1..Len(results) : results'[k] = results[k]
       /\ scan_result # {} => scan_result' = scan_result
       /\ scan_result' # {} => Val(scan_result').file_metrics = results']_vars

\* C24 witness: a returned scan with one file Parsed and one Degraded
C24_Witness ==
    /\ pc = "returned"
    /\ \E i, j \in Tasks : FileState(i) = "Parsed" /\ FileState(j) = "Degraded"
    /\ Len(Result.file_metrics) = 2

\* The directories of the scan root that hold the tool itself: here the
\* tool is installed under s (a virtual environment of the scanned project)
OwnDirectories == {<<"s">>}

\* C25: files under the tool's own installation or output directories are
\* left out of discovery without any ignore pattern: none is dispatched and
\* none has a metric.
C25_OwnDirectoriesExcluded ==
    /\ \A i \in 1..Len(files_to_analyze) :
           ~ \E d \in OwnDirectories : IsRelativeTo(RelativeTo(files_to_analyze[i], ROOT), d)
    /\ \A k \in 1..Len(results) :
           ~ \E d \in OwnDirectories : IsRelativeTo(RelOf(results[k]), d)

\* The analyzers of the registry that claim a path, by position
Claiming(path) ==
    LET suffix == PathSuffix(path)
    IN  {a \in 1..Len(analyzer_instances) : suffix \in file_extensions(analyzer_instances[a])}

\* The analyzer in whose except branch the analysis of task i ended, if it
\* ended in one: a file that cannot be read, or a Python source that does not
\* parse
DegradedBy(i) ==
    IF outcome[i] = {} \/ Val(outcome[i]).raised
    THEN {}
    ELSE LET e == EntryAt(files_to_analyze[i])
         IN  IF ~ (ReadFails(e) \/ e.py.parse = "SyntaxError")
             THEN {}
             ELSE LET claiming == Claiming(files_to_analyze[i])
                  IN  IF claiming = {}
                      THEN {}
                      ELSE {a \in {analyzer_instances[SetMin(claiming)]} :
                               ReadFails(e) \/ a = "python"}

\* The analysis of task i ended in the except branch of an analyzer
AnalyzerDegraded(i) == DegradedBy(i) # {}

\* C26: a degraded FileMetric an analyzer returns has that analyzer's
\* language tag, no function, class or documented item, and as its line count
\* the file's line count when the file can be read, 0 when it cannot.
C26_DegradedMetricShape ==
    \A i \in Tasks :
        \A a \in DegradedBy(i) :
            LET m == Val(outcome[i]).metric
                e == EntryAt(files_to_analyze[i])
            IN  /\ m.path = files_to_analyze[i]
                /\ m.language = a
                /\ m.functions = 0 /\ m.documented_functions = 0
                /\ m.classes = 0 /\ m.documented_classes = 0
                /\ m.lines = (IF e.kind = "file" /\ e.read = "ok" THEN e.lines ELSE 0)

\* C26 witness: one file that reads but does not parse got its 4 lines, and
\* one file that cannot be read got 0
C26_Witness ==
    \E i, j \in Tasks :
        /\ AnalyzerDegraded(i) /\ AnalyzerDegraded(j)
        /\ EntryAt(files_to_analyze[i]).py.parse = "SyntaxError"
        /\ Val(outcome[i]).metric.lines = 4
        /\ EntryAt(files_to_analyze[j]).read # "ok"
        /\ Val(outcome[j]).metric.lines = 0

\* The class declarations of a JavaScript source that a /** */ block comment
\* directly precedes, by the position of the comment
DocumentedClassDeclarations(items) ==
    {i \in 1..(Len(items) - 2) :
        /\ items[i].k = "doc"
        /\ items[i + 1] = Item("word", <<"class">>)
        /\ FirstWord(items[i + 2]) # <<>>}

\* C27: for a file the JavaScript analyzer read, documented_classes is the
\* number of its class declarations that a /** */ comment directly precedes.
C27_DocumentedClassesCounted ==
    \A i \in Tasks :
        (/\ outcome[i] # {}
         /\ ~ Val(outcome[i]).raised
         /\ Val(outcome[i]).metric.language = "javascript"
         /\ ~ ReadFails(EntryAt(files_to_analyze[i])))
        => Val(outcome[i]).metric.documented_classes
               = Cardinality(DocumentedClassDeclarations(EntryAt(files_to_analyze[i]).js))

\* Extensions of the analyzers a scan uses
AllowedExtensions == UNION {file_extensions(a) : a \in Range(analyzers_to_use(languages))}

\* C28: discovery collects files only: every dispatched path is a regular
\* file, its extension is an allowed extension, and some analyzer of the
\* registry claims it.
C28_DiscoveryCollectsFilesOnly ==
    \A i \in 1..Len(files_to_analyze) :
        /\ EntryAt(files_to_analyze[i]).kind = "file"
        /\ PathSuffix(files_to_analyze[i]) \in AllowedExtensions
        /\ Claiming(files_to_analyze[i]) # {}

\* C29: the language tag of the metric an analysis call returns is the
\* language EXTENSION_TO_LANGUAGE gives for the file's extension.
C29_LanguageTagFollowsTable ==
    \A i \in Tasks :
        (outcome[i] # {} /\ ~ Val(outcome[i]).raised) =>
            \A item \in EXTENSION_TO_LANGUAGE :
                item[1] = PathSuffix(files_to_analyze[i]) =>
                    Val(outcome[i]).metric.language = item[2]

\* C30: termination. Under fair scheduling, once the discovered files are
\* submitted to a pool of at least one thread the scan eventually passes the
\* barrier and returns a ScanResult, with every task finished and collected.
C30_ScanTerminates ==
    (pc = "analyzing" /\ self_threads >= 1)
        ~> (/\ pc = "returned"
            /\ scan_result # {}
            /\ collected = Tasks
            /\ \A i \in Tasks : future[i] = "finished")

\* C30 witness: a scan with a single pool thread returned after its two
\* tasks, one of which raised, had run one after the other
C30_Witness ==
    /\ pc = "returned"
    /\ threads = Some(1)
    /\ Cardinality(Tasks) = 2
    /\ collected = Tasks
    /\ \E i \in Tasks : Faulted(i)

====
